---- MODULE Spec2Model ----
(***************************************************************************)
(* Name resolution and clarification of the meeting assistant.             *)
(*                                                                         *)
(* Strings are sequences of one-character strings, so that lower(),        *)
(* strip(), split() and the substring test `in` are computed as Python     *)
(* computes them.  A similarity is an integer number of quarter            *)
(* thousandths (Scale = 1.0), fine enough to tell a raw similarity from    *)
(* its value rounded to three decimals.                                    *)
(***************************************************************************)
EXTENDS Integers, Sequences, FiniteSets, TLC

VARIABLES
    resolver,        \* which class runs search_names
    collection,      \* the ChromaDB collection: query text -> raw hits
    input_names,     \* argument of search_names
    threshold,       \* argument of search_names
    pos,             \* position of `for name in input_names`
    results,         \* the dictionary search_names builds and returns
    pc,              \* control point: in the loop, returned, merged
    meeting_info_json,     \* argument of create_meeting_with_resolved_names
    clarification_choice,  \* argument of create_meeting_with_resolved_names
    meeting,         \* what create_meeting_with_resolved_names returned
    df,              \* self.df_user of the index build
    row,             \* position of `for _, user in self.df_user.iterrows()`
    texts,           \* local of _index_users
    metadatas,       \* local of _index_users
    documents,       \* what the collection holds: (document, metadata) pairs
    run,             \* how many times the resolver has been constructed
    first_run,       \* what the first construction indexed and returned
    clarification,   \* what check_clarification returned
    current_context,           \* MeetingAssistantAgent.current_context
    last_meeting_info,         \* MeetingAssistantAgent.last_meeting_info
    chat,                      \* where interactive_chat waits: input or choice
    turn,                      \* how many requests interactive_chat has read
    user_input,                \* local of interactive_chat
    original_search_results,   \* local of interactive_chat
    clarification_instruction, \* local of handle_clarification
    final_result,              \* local of interactive_chat
    tool_input,                \* the tool the agent calls, and its argument
    tool_output,               \* what the call returned, or that it raised
    users,           \* the collection the shared client keeps as "users"
    observed,        \* what a query of the first instance got during a rebuild
    environ,         \* os.environ, as far as Config reads it
    _config,         \* the global _config of config.py
    config_result    \* what the last call of get_config returned, or that it raised

mergeVars == <<meeting_info_json, clarification_choice, meeting>>

indexVars == <<df, row, texts, metadatas, documents, run, first_run>>

\* the state that search_names and the merge tool leave alone
agentVars == <<current_context, last_meeting_info, chat, turn, user_input,
               original_search_results, clarification_instruction, final_result>>

toolVars == <<tool_input, tool_output>>

readerVars == <<users, observed>>

configVars == <<environ, _config, config_result>>

restVars == <<indexVars, clarification, agentVars, toolVars, readerVars, configVars>>

vars == <<resolver, collection, input_names, threshold, pos, results, pc,
          mergeVars, restVars>>

-----------------------------------------------------------------------------
(* Bounds of the model                                                     *)

MaxHits == 3

MaxNames == 3

-----------------------------------------------------------------------------
(* Strings                                                                  *)

LowerChar(c) ==
    CASE c = "A" -> "a"
      [] c = "D" -> "d"
      [] c = "K" -> "k"
      [] c = "N" -> "n"
      [] c = "P" -> "p"
      [] c = "S" -> "s"
      [] c = "Z" -> "z"
      [] c = "S_cedilla" -> "s_cedilla"
      [] OTHER -> c

\* str.lower()
Lower(s) == [i \in 1..Len(s) |-> LowerChar(s[i])]

IsSpace(c) == c \in {" ", "\n", "\t"}

RECURSIVE LStrip(_)
LStrip(s) ==
    IF s # <<>> /\ IsSpace(Head(s)) THEN LStrip(Tail(s)) ELSE s

RECURSIVE RStrip(_)
RStrip(s) ==
    IF s # <<>> /\ IsSpace(s[Len(s)]) THEN RStrip(SubSeq(s, 1, Len(s) - 1)) ELSE s

\* str.strip()
Strip(s) == LStrip(RStrip(s))

-----------------------------------------------------------------------------
(* The user table                                                           *)

df_user ==
    <<
       [id |-> 2, full_name |-> <<"A","h","m","e","t"," ","K","a","y","a">>,
        email_address |-> <<"a","h","m","e","t",".","k","a","y","a","@","c","o","m","p","a","n","y",".","c","o","m">>],
       [id |-> 5, full_name |-> <<"A","l","i"," ","D","e","m","i","r">>,
        email_address |-> <<"a","l","i",".","d","e","m","i","r","@","c","o","m","p","a","n","y",".","c","o","m">>],
       [id |-> 16, full_name |-> <<"D","e","n","i","z"," ","K","a","y","a">>,
        email_address |-> <<"d","e","n","i","z",".","k","a","y","a","@","c","o","m","p","a","n","y",".","c","o","m">>],
       [id |-> 17, full_name |-> <<"D","e","n","i","z"," ","K","a","y","a","h","a","n">>,
        email_address |-> <<"d","e","n","i","z",".","k","a","y","a","h","a","n","@","c","o","m","p","a","n","y",".","c","o","m">>],
       [id |-> 20, full_name |-> <<"S","e","l","i","n"," ","D","e","m","i","r">>,
        email_address |-> <<"s","e","l","i","n",".","d","e","m","i","r","@","c","o","m","p","a","n","y",".","c","o","m">>],
       [id |-> 21, full_name |-> <<"B","u","r","a","k"," ","D","e","m","i","r">>,
        email_address |-> <<"b","u","r","a","k",".","d","e","m","i","r","@","c","o","m","p","a","n","y",".","c","o","m">>]
    >>

UserIds == {df_user[i].id : i \in 1..Len(df_user)}

UserRow(user_id) == CHOOSE i \in 1..Len(df_user) : df_user[i].id = user_id

\* the metadata stored with every variant of a user
Metadata(user_id) ==
    [user_id |-> user_id,
     full_name |-> df_user[UserRow(user_id)].full_name,
     email_address |-> df_user[UserRow(user_id)].email_address]

-----------------------------------------------------------------------------
(* Similarity                                                               *)

\* 1.0 in quarter thousandths
Scale == 4000

\* vector_db_similarity_threshold, 0.7
DefaultThreshold == 2800

\* round(x, 3): to the nearest thousandth, an exact half to the even one
Round3(x) ==
    LET q == x \div 4
        r == x % 4
    IN  IF r < 2 THEN 4 * q
        ELSE IF r > 2 THEN 4 * q + 4
        ELSE IF q % 2 = 0 THEN 4 * q ELSE 4 * q + 4

\* similarity = 1 - distance
Similarity(distance) == Scale - distance

-----------------------------------------------------------------------------
(* search_names: grouping the raw hits of one name by user                  *)

\* user_matches is a dict: here the sequence of its values in insertion order
HasUser(user_matches, user_id) ==
    \E k \in 1..Len(user_matches) : user_matches[k].id = user_id

UserIndex(user_matches, user_id) ==
    CHOOSE k \in 1..Len(user_matches) : user_matches[k].id = user_id

\* the value stored for a hit
MatchEntry(metadata, similarity) ==
    [id |-> metadata.user_id,
     full_name |-> metadata.full_name,
     email_address |-> metadata.email_address,
     similarity |-> Round3(similarity)]

\* user_matches[user_id] = {...}: a new key goes last, a known key keeps its place
PutMutantAppend(user_matches, entry) == Append(user_matches, entry)

Put(user_matches, entry) ==
    IF HasUser(user_matches, entry.id)
    THEN [user_matches EXCEPT ![UserIndex(user_matches, entry.id)] = entry]
    ELSE Append(user_matches, entry)

\* if similarity >= threshold
ClearsMutantStrict(similarity, t) == similarity > t

ClearsMutantInverted(similarity, t) == similarity <= t

ClearsMutantNoFilter(similarity, t) == TRUE

Clears(similarity, t) == similarity >= t

\* one pass of `for i, metadata in enumerate(search_results['metadatas'][0])`
GroupHitMutantLastWins(user_matches, hit, t) ==
    IF Clears(Similarity(hit.distance), t)
    THEN Put(user_matches, MatchEntry(hit.metadata, Similarity(hit.distance)))
    ELSE user_matches

GroupHit(user_matches, hit, t) ==
    LET similarity == Similarity(hit.distance)
        user_id == hit.metadata.user_id
    IN  IF Clears(similarity, t)
        THEN IF \/ ~HasUser(user_matches, user_id)
                \/ similarity > user_matches[UserIndex(user_matches, user_id)].similarity
             THEN Put(user_matches, MatchEntry(hit.metadata, similarity))
             ELSE user_matches
        ELSE user_matches

RECURSIVE GroupFrom(_, _, _, _)
GroupFrom(hits, i, t, user_matches) ==
    IF i > Len(hits) THEN user_matches
    ELSE GroupFrom(hits, i + 1, t, GroupHit(user_matches, hits[i], t))

\* unique_users = list(user_matches.values())
GroupByUser(hits, t) == GroupFrom(hits, 1, t, <<>>)

\* list.sort(key=similarity, reverse=True): stable, by insertion
RECURSIVE InsertDesc(_, _)
InsertDesc(sorted, entry) ==
    IF sorted = <<>> THEN <<entry>>
    ELSE IF Head(sorted).similarity >= entry.similarity
         THEN <<Head(sorted)>> \o InsertDesc(Tail(sorted), entry)
         ELSE <<entry>> \o sorted

RECURSIVE SortFrom(_, _, _)
SortFrom(seq, i, sorted) ==
    IF i > Len(seq) THEN sorted
    ELSE SortFrom(seq, i + 1, InsertDesc(sorted, seq[i]))

\* the list left as the dict gives it
SortBySimilarityMutantUnsorted(seq) == seq

SortBySimilarity(seq) == SortFrom(seq, 1, <<>>)

\* unique_users[:5]
TopCandidates == 5

Truncate(seq, n) == IF Len(seq) > n THEN SubSeq(seq, 1, n) ELSE seq

\* unique_users, as each class builds it
UniqueUsers(r, hits, t) ==
    IF r = "VectorNameResolver"
    THEN SortBySimilarity(GroupByUser(hits, t))
    ELSE GroupByUser(hits, t)

ResolvedEntry(r, name, user) ==
    IF r = "VectorNameResolver"
    THEN [input_name |-> name,
          matched_user |-> [id |-> user.id, full_name |-> user.full_name,
                            email_address |-> user.email_address],
          match_type |-> "vector_auto",
          similarity_score |-> user.similarity]
    ELSE [input_name |-> name,
          matched_user |-> user,
          similarity_score |-> user.similarity]

Candidates(r, unique_users) ==
    IF r = "VectorNameResolver"
    THEN Truncate(unique_users, TopCandidates)
    ELSE unique_users

\* the three branches on len(unique_users)
ClassifiedMutantSilentNoMatch(r, res, name, unique_users) ==
    IF Len(unique_users) = 1
    THEN [res EXCEPT !.resolved_names =
                 Append(@, ResolvedEntry(r, name, unique_users[1]))]
    ELSE IF Len(unique_users) > 1
    THEN [res EXCEPT !.partial_matches =
                 Append(@, [input_name |-> name,
                            candidates |-> Candidates(r, unique_users)]),
                     !.ambiguous_names = Append(@, name),
                     !.needs_clarification = TRUE]
    ELSE [res EXCEPT !.ambiguous_names = Append(@, name)]

Classified(r, res, name, unique_users) ==
    IF Len(unique_users) = 1
    THEN [res EXCEPT !.resolved_names =
                 Append(@, ResolvedEntry(r, name, unique_users[1]))]
    ELSE IF Len(unique_users) > 1
    THEN [res EXCEPT !.partial_matches =
                 Append(@, [input_name |-> name,
                            candidates |-> Candidates(r, unique_users)]),
                     !.ambiguous_names = Append(@, name),
                     !.needs_clarification = TRUE]
    ELSE [res EXCEPT !.ambiguous_names = Append(@, name),
                     !.needs_clarification = TRUE]

EmptyResults ==
    [resolved_names |-> <<>>,
     partial_matches |-> <<>>,
     ambiguous_names |-> <<>>,
     needs_clarification |-> FALSE]

-----------------------------------------------------------------------------
(* The collection and the calls of search_names                             *)

\* n_results of collection.query
n_results == 10

\* raw similarities around the default threshold: just below it, at it, and
\* three above it: two that round down to it, one of them an exact half, and
\* one that rounds up to the next thousandth
Distances ==
    {Scale - (DefaultThreshold - 1), Scale - DefaultThreshold,
     Scale - (DefaultThreshold + 1), Scale - (DefaultThreshold + 2),
     Scale - (DefaultThreshold + 3)}

Thresholds == {DefaultThreshold, DefaultThreshold + 2}

Hit(user_id, distance) == [metadata |-> Metadata(user_id), distance |-> distance]

\* what one query may return: any hits, of any of three users, in any order
HitSeqs ==
    UNION {[1..k -> {Hit(u, d) : u \in {2, 16, 17}, d \in Distances}] : k \in 0..MaxHits}

\* a name searched against an arbitrary collection
FreeNames == {<<"D","e","n","i","z">>}

\* a sample collection over df_user, hits nearest first
SampleCollection ==
    (<<"k","a","y","a">> :>
        <<Hit(2, 0), Hit(16, 0), Hit(17, 900), Hit(2, 1000), Hit(16, 1000)>>)
    @@ (<<"d","e","n","i","z">> :>
        <<Hit(16, 0), Hit(17, 0), Hit(17, 800), Hit(16, 1100)>>)
    @@ (<<"d","e","n","i","z"," ","k","a","y","a","h","a","n">> :>
        <<Hit(17, 0), Hit(17, 1100), Hit(16, 1199), Hit(2, 2600)>>)
    @@ (<<"a","l","i">> :>
        <<Hit(5, 0), Hit(5, 1100), Hit(2, 2400)>>)
    @@ (<<"z","e","y","n","e","p">> :>
        <<Hit(17, 2300), Hit(5, 2500), Hit(2, 4400)>>)

SampleNames ==
    {<<"K","a","y","a">>, <<"D","e","n","i","z">>, <<"D","e","n","i","z"," ","K","a","y","a","h","a","n">>,
     <<"A","l","i">>, <<"Z","e","y","n","e","p">>, <<" "," ">>, <<>>}

Resolvers == {"VectorDatabaseManager", "VectorNameResolver"}

\* collection.query(query_embeddings, n_results): at most n_results hits; a text
\* the collection does not list has no variant near it
Query(coll, text) ==
    IF text \in DOMAIN coll THEN Truncate(coll[text], n_results) ELSE <<>>

\* not name.strip()
IsBlankMutantNoStrip(name) == name = <<>>

IsBlank(name) == Strip(name) = <<>>

\* dict.get() of a key that may be absent, and a value that may be None
Absent == [present |-> FALSE]

Some(value) == [present |-> TRUE, value |-> value]

\* self.current_context = {}
EmptyContext == [set |-> FALSE]

\* no agent is followed
NoAgent ==
    /\ current_context = EmptyContext
    /\ last_meeting_info = Absent
    /\ chat = "off"
    /\ turn = 0
    /\ user_input = [kind |-> "none"]
    /\ original_search_results = Absent
    /\ clarification_instruction = Absent
    /\ final_result = Absent

\* a collection given as it is: no construction is followed
\* one instance, and no query watched
NoReader == users = "first" /\ observed = [kind |-> "none"]

\* the environment variables Config.__init__ reads that decide whether
\* get_config raises; the other six are strings read the same way
EnvKeys ==
    {"AZURE_OPENAI_ENDPOINT", "AZURE_OPENAI_API_KEY", "AZURE_OPENAI_DEPLOYMENT_NAME",
     "AZURE_OPENAI_API_VERSION", "DEFAULT_MEETING_DURATION",
     "VECTOR_DB_SIMILARITY_THRESHOLD"}

\* no configuration is followed: nothing set, get_config not called
NoConfig ==
    /\ environ = [key \in EnvKeys |-> Absent]
    /\ _config = Absent
    /\ config_result = [kind |-> "none"]

\* no tool has been called
NoTool == tool_input = [tool |-> "none"] /\ tool_output = [kind |-> "none"]

NoBuild ==
    /\ df = <<>>
    /\ row = 1
    /\ texts = <<>>
    /\ metadatas = <<>>
    /\ documents = {}
    /\ run = 0
    /\ first_run = [kind |-> "none"]

InitCall ==
    /\ resolver \in Resolvers
    /\ threshold \in Thresholds
    /\ pos = 1
    /\ results = EmptyResults
    /\ pc = "loop"
    /\ meeting_info_json = ""
    /\ clarification_choice = <<>>
    /\ meeting = [kind |-> "none"]
    /\ NoBuild
    /\ NoTool
    /\ NoReader
    /\ NoConfig
    /\ clarification = [status |-> "none"]
    /\ NoAgent

\* one name against any collection
InitFree ==
    /\ InitCall
    /\ \E name \in FreeNames :
          /\ input_names = <<name>>
          /\ collection \in [{Lower(name)} -> HitSeqs]

\* several names against the sample collection
InitSample ==
    /\ InitCall
    /\ input_names \in UNION {[1..k -> SampleNames] : k \in 0..MaxNames}
    /\ collection = SampleCollection

\* one hit of every user of the table, each just above or just below the
\* default threshold, in the order of the table
CrowdedHits ==
    {[i \in 1..Len(df_user) |-> Hit(df_user[i].id, distances[i])] :
        distances \in [1..Len(df_user) ->
                          {Scale - (DefaultThreshold + 3), Scale - (DefaultThreshold - 1)}]}

\* one name against a collection in which every user has a variant near it
InitCrowded ==
    /\ InitCall
    /\ \E name \in FreeNames :
          /\ input_names = <<name>>
          /\ collection \in [{Lower(name)} -> CrowdedHits]

Init == InitFree \/ InitSample \/ InitCrowded

\* if not name.strip(): continue
SkipBlank ==
    /\ pc = "loop"
    /\ pos <= Len(input_names)
    /\ IsBlank(input_names[pos])
    /\ pos' = pos + 1
    /\ UNCHANGED <<resolver, collection, input_names, threshold, results, pc, mergeVars, restVars>>

\* the body of the loop for one name: query, group by user, classify
ResolveName ==
    /\ pc = "loop"
    /\ pos <= Len(input_names)
    /\ ~IsBlank(input_names[pos])
    /\ LET name == input_names[pos]
           hits == Query(collection, Lower(name))
       IN  results' = Classified(resolver, results, name,
                                 UniqueUsers(resolver, hits, threshold))
    /\ pos' = pos + 1
    /\ UNCHANGED <<resolver, collection, input_names, threshold, pc, mergeVars, restVars>>

\* return results
Return ==
    /\ pc = "loop"
    /\ pos > Len(input_names)
    /\ pc' = "done"
    /\ UNCHANGED <<resolver, collection, input_names, threshold, pos, results,
                   mergeVars, restVars>>

Next == SkipBlank \/ ResolveName \/ Return

Spec == Init /\ [][Next]_vars

-----------------------------------------------------------------------------
(* Properties of search_names                                               *)

Range(seq) == {seq[i] : i \in 1..Len(seq)}

\* positions of the names the loop has resolved so far
Processed == {k \in 1..(pos - 1) : Strip(input_names[k]) # <<>>}

RawHits(name) == Query(collection, Lower(name))

\* the persons with at least one raw hit at or above t
ClearedAt(name, t) ==
    {h.metadata.user_id : h \in {x \in Range(RawHits(name)) : Scale - x.distance >= t}}

Cleared(name) == ClearedAt(name, threshold)

ResolvedOf(name) == {e \in Range(results.resolved_names) : e.input_name = name}

PartialOf(name) == {e \in Range(results.partial_matches) : e.input_name = name}

IsAmbiguousName(name) == name \in Range(results.ambiguous_names)

CandidateIds(entry) == {entry.candidates[i].id : i \in 1..Len(entry.candidates)}

\* some user has two raw hits that both clear the threshold
HasVariantHits(name) ==
    \E i, j \in 1..Len(RawHits(name)) :
        /\ i # j
        /\ RawHits(name)[i].metadata.user_id = RawHits(name)[j].metadata.user_id
        /\ Scale - RawHits(name)[i].distance >= threshold
        /\ Scale - RawHits(name)[j].distance >= threshold

\* C6: dedup invariant: no candidate list holds the same person id twice, and
\* a name is ambiguous only when at least two different persons are candidates
\* (several variant hits of one person count once).
C6_Dedup ==
    \A e \in Range(results.partial_matches) :
        /\ \A i, j \in 1..Len(e.candidates) :
               i # j => e.candidates[i].id # e.candidates[j].id
        /\ Cardinality(CandidateIds(e)) >= 2
        /\ Cardinality(Cleared(e.input_name)) >= 2

\* an ambiguous name one of whose candidates was hit under several variants
C6_Witness ==
    \E e \in Range(results.partial_matches) : HasVariantHits(e.input_name)

\* C7: threshold classification: with P the persons having a raw hit with
\* similarity >= threshold, a name is Unmatched when P is empty, Resolved to the
\* person of P when P has one person, Ambiguous when P has two or more.
C7_Classification ==
    \A k \in Processed :
        LET name == input_names[k]
            P == Cleared(name)
        IN  /\ Cardinality(P) = 0 =>
                /\ IsAmbiguousName(name)
                /\ PartialOf(name) = {}
                /\ ResolvedOf(name) = {}
            /\ Cardinality(P) = 1 =>
                /\ ResolvedOf(name) # {}
                /\ \A e \in ResolvedOf(name) : e.matched_user.id \in P
                /\ ~IsAmbiguousName(name)
                /\ PartialOf(name) = {}
            /\ Cardinality(P) >= 2 =>
                /\ PartialOf(name) # {}
                /\ IsAmbiguousName(name)
                /\ ResolvedOf(name) = {}

\* a name resolved by a hit exactly at the threshold and by no hit above it
C7_Witness ==
    \E k \in Processed :
        /\ ResolvedOf(input_names[k]) # {}
        /\ \A h \in Range(RawHits(input_names[k])) : Scale - h.distance <= threshold
        /\ \E h \in Range(RawHits(input_names[k])) : Scale - h.distance < threshold

\* the query returns its hits nearest first
NearestFirst(hits) ==
    \A i, j \in 1..Len(hits) : i < j => hits[i].distance <= hits[j].distance

CollectionNearestFirst ==
    \A text \in DOMAIN collection : NearestFirst(collection[text])

\* position of the first raw hit of a user that clears the threshold
FirstHit(name, user_id) ==
    CHOOSE i \in 1..Len(RawHits(name)) :
        /\ RawHits(name)[i].metadata.user_id = user_id
        /\ Scale - RawHits(name)[i].distance >= threshold
        /\ \A j \in 1..(i - 1) :
               ~(/\ RawHits(name)[j].metadata.user_id = user_id
                 /\ Scale - RawHits(name)[j].distance >= threshold)

NonBlankCount == Cardinality({k \in 1..Len(input_names) : Strip(input_names[k]) # <<>>})

InputNamesOf(entries) == [i \in 1..Len(entries) |-> entries[i].input_name]

IsResolvedName(name) == Strip(name) # <<>> /\ Cardinality(Cleared(name)) = 1

IsPendingName(name) == Strip(name) # <<>> /\ Cardinality(Cleared(name)) # 1

IsPartialName(name) == Strip(name) # <<>> /\ Cardinality(Cleared(name)) >= 2

\* C9: search_names returns one outcome per non-blank input name and none for
\* a blank one: each output list names, verbatim and in input order, exactly
\* the non-blank input names of its class.
C9_OneOutcomePerName ==
    pc = "done" =>
        /\ Len(results.resolved_names) + Len(results.ambiguous_names) = NonBlankCount
        /\ InputNamesOf(results.resolved_names) = SelectSeq(input_names, IsResolvedName)
        /\ results.ambiguous_names = SelectSeq(input_names, IsPendingName)
        /\ InputNamesOf(results.partial_matches) = SelectSeq(input_names, IsPartialName)

\* a finished call whose input held a blank name before a name that got an outcome
C9_Witness ==
    /\ pc = "done"
    /\ Len(input_names) = 2
    /\ input_names[1] # <<>>
    /\ Strip(input_names[1]) = <<>>
    /\ Len(results.resolved_names) + Len(results.ambiguous_names) = 1

\* thresholds at which the set of surviving persons can change
Breakpoints(name) ==
    Thresholds \cup {Scale - h.distance : h \in Range(RawHits(name))} \cup {Scale + 1}

\* the persons that survive aggregation at threshold t
Survivors(name, t) ==
    LET unique_users == UniqueUsers(resolver, RawHits(name), t)
    IN  {unique_users[i].id : i \in 1..Len(unique_users)}

\* the persons of the outcome the call recorded for a name
OutcomeIds(name) ==
    {e.matched_user.id : e \in ResolvedOf(name)}
        \cup UNION {CandidateIds(e) : e \in PartialOf(name)}

\* the number of persons the call offers for a name at threshold t
OfferedAt(name, t) ==
    Len(Candidates(resolver, UniqueUsers(resolver, RawHits(name), t)))

\* C10: threshold monotonicity: the persons surviving at a higher threshold are
\* among those surviving at a lower one, so raising the threshold never adds a
\* candidate and never turns Unmatched or Resolved into Ambiguous.
C10_Monotone ==
    \A k \in Processed :
        LET name == input_names[k]
        IN  /\ \A t2 \in Breakpoints(name) :
                   /\ t2 >= threshold => OfferedAt(name, t2) <= Cardinality(OutcomeIds(name))
                   /\ t2 <= threshold => OutcomeIds(name) \subseteq Survivors(name, t2)
            /\ pc = "done" =>
                   \A t1, t2 \in Breakpoints(name) :
                       t1 <= t2 => Survivors(name, t2) \subseteq Survivors(name, t1)

\* an ambiguous name that a higher threshold leaves with fewer persons
C10_Witness ==
    \E k \in Processed :
        /\ PartialOf(input_names[k]) # {}
        /\ \E t2 \in Breakpoints(input_names[k]) :
               /\ t2 > threshold
               /\ Survivors(input_names[k], t2) # OutcomeIds(input_names[k])
               /\ Survivors(input_names[k], t2) # {}

\* the raw similarities of the hits of a person for a name
RawOf(name, user_id) ==
    {Scale - h.distance : h \in {x \in Range(RawHits(name)) : x.metadata.user_id = user_id}}

Max(S) == CHOOSE x \in S : \A y \in S : y <= x

\* C23: best score per person: the similarity reported for a person that
\* survives aggregation is the maximum raw similarity over all raw hits of
\* that person, rounded to three decimals, in whatever order the hits come.
C23_BestScore ==
    \A k \in Processed :
        LET name == input_names[k]
        IN  /\ \A e \in ResolvedOf(name) :
                   e.similarity_score = Round3(Max(RawOf(name, e.matched_user.id)))
            /\ \A e \in PartialOf(name) :
                   \A i \in 1..Len(e.candidates) :
                       e.candidates[i].similarity =
                           Round3(Max(RawOf(name, e.candidates[i].id)))

\* a person whose second hit is lower than the first as raw similarities,
\* and yet higher than the rounded value stored for the first
C23_Witness ==
    \E k \in Processed :
        LET hits == RawHits(input_names[k])
        IN  /\ Len(hits) >= 2
            /\ hits[1].metadata.user_id = hits[2].metadata.user_id
            /\ Scale - hits[2].distance >= threshold
            /\ Scale - hits[2].distance < Scale - hits[1].distance
            /\ Scale - hits[2].distance > Round3(Scale - hits[1].distance)

\* the similarities a call reports: similarity_score of the resolved names
\* and similarity of the candidates
Reported ==
    {e.similarity_score : e \in Range(results.resolved_names)}
        \cup UNION {{e.candidates[i].similarity : i \in 1..Len(e.candidates)} :
                       e \in Range(results.partial_matches)}

\* C24 as stated: every similarity search_names reports lies in [0,1] and is
\* at least the threshold of the call.
C24_AsStated == \A s \in Reported : 0 <= s /\ s <= Scale /\ s >= threshold

\* C24 amended: every similarity search_names reports lies in [0,1] and is
\* the rounding to three decimals of a raw similarity that is at least the
\* threshold: it is at least the threshold rounded to three decimals, and at
\* least the threshold itself when that is a whole number of thousandths.
C24_Bounds ==
    \A s \in Reported :
        /\ 0 <= s /\ s <= Scale
        /\ s >= Round3(threshold)
        /\ threshold % 4 = 0 => s >= threshold

\* a reported similarity below the threshold of the call
C24_Witness == \E s \in Reported : s < threshold

ResultKeys == {"resolved_names", "partial_matches", "ambiguous_names", "needs_clarification"}

\* C21: the result of search_names has exactly the four keys resolved_names,
\* partial_matches, ambiguous_names and needs_clarification;
\* needs_clarification is true exactly when ambiguous_names is not empty,
\* which for a finished call is exactly when some non-blank input name is not
\* Resolved; and every input_name of partial_matches is in ambiguous_names.
C21_Shape ==
    /\ DOMAIN results = ResultKeys
    /\ results.needs_clarification <=> results.ambiguous_names # <<>>
    /\ pc = "done" =>
           (results.needs_clarification <=>
               \E k \in 1..Len(input_names) : IsPendingName(input_names[k]))
    /\ \A e \in Range(results.partial_matches) : IsAmbiguousName(e.input_name)

\* a finished call with a resolved name and a name without any candidate
C21_Witness ==
    /\ pc = "done"
    /\ results.resolved_names # <<>>
    /\ results.partial_matches = <<>>
    /\ results.ambiguous_names # <<>>
    /\ results.needs_clarification

\* C28: for every Ambiguous outcome the candidates are exactly the persons whose
\* best raw hit clears the threshold: none is omitted, none below is included.
C28_AsStated ==
    \A k \in Processed :
        \A e \in PartialOf(input_names[k]) :
            CandidateIds(e) = Cleared(input_names[k])

-----------------------------------------------------------------------------
(* More of Python's str, as create_meeting_with_resolved_names uses it      *)

\* s.startswith(prefix)
StartsWith(s, prefix) ==
    Len(prefix) <= Len(s) /\ SubSeq(s, 1, Len(prefix)) = prefix

EndsWith(s, suffix) ==
    Len(suffix) <= Len(s) /\ SubSeq(s, Len(s) - Len(suffix) + 1, Len(s)) = suffix

\* needle in hay
Contains(hay, needle) ==
    \E i \in 1..(Len(hay) - Len(needle) + 1) :
        SubSeq(hay, i, i + Len(needle) - 1) = needle

\* hay.find(needle), from 1; 0 when absent
Find(hay, needle) ==
    IF Contains(hay, needle)
    THEN CHOOSE i \in 1..(Len(hay) - Len(needle) + 1) :
             /\ SubSeq(hay, i, i + Len(needle) - 1) = needle
             /\ \A j \in 1..(i - 1) : SubSeq(hay, j, j + Len(needle) - 1) # needle
    ELSE 0

\* s.replace(' ', '')
RemoveSpaces(s) == SelectSeq(s, LAMBDA c : c # " ")

\* s.split(sep)[0]
Before(s, sep) ==
    IF Find(s, sep) = 0 THEN s ELSE SubSeq(s, 1, Find(s, sep) - 1)

\* s.split(sep, 1)[1], for a sep that occurs in s
After(s, sep) == SubSeq(s, Find(s, sep) + Len(sep), Len(s))

\* s.split(sep)
RECURSIVE Split(_, _)
Split(s, sep) ==
    IF Find(s, sep) = 0 THEN <<s>>
    ELSE <<Before(s, sep)>> \o Split(After(s, sep), sep)

IsDigit(c) == c \in {"0", "1", "2", "3", "4", "5", "6", "7", "8", "9"}

-----------------------------------------------------------------------------
(* json.loads, on the texts a clarification answer can be: an array of       *)
(* strings and integers, an object with the one key "name", the empty        *)
(* object; any other text starting with [ or { is not JSON                   *)

Quote == <<"\"">>

IsJsonString(item) ==
    /\ Len(item) >= 2
    /\ StartsWith(item, Quote)
    /\ EndsWith(item, Quote)
    /\ ~Contains(SubSeq(item, 2, Len(item) - 1), Quote)

IsJsonInt(item) == item # <<>> /\ \A i \in 1..Len(item) : IsDigit(item[i])

\* a str value carries its characters; an int value is not a str
JsonItem(item) ==
    IF IsJsonString(item)
    THEN [type |-> "str", value |-> SubSeq(item, 2, Len(item) - 1)]
    ELSE [type |-> "int", value |-> item]

JsonArrayItems(text) ==
    LET body == Strip(SubSeq(text, 2, Len(text) - 1))
    IN  IF body = <<>> THEN <<>>
        ELSE LET parts == Split(body, <<",">>)
             IN  [i \in 1..Len(parts) |-> Strip(parts[i])]

NameKey == <<"{", "\"", "n", "a", "m", "e", "\"", ":", " ", "\"">>

JsonLoads(text) ==
    IF /\ Len(text) >= 2
       /\ StartsWith(text, <<"[">>)
       /\ EndsWith(text, <<"]">>)
       /\ \A i \in 1..Len(JsonArrayItems(text)) :
              IsJsonString(JsonArrayItems(text)[i]) \/ IsJsonInt(JsonArrayItems(text)[i])
    THEN [kind |-> "list",
          items |-> [i \in 1..Len(JsonArrayItems(text)) |-> JsonItem(JsonArrayItems(text)[i])]]
    ELSE IF text = <<"{", "}">>
    THEN [kind |-> "dict", keys |-> {}]
    ELSE IF /\ StartsWith(text, NameKey)
            /\ EndsWith(text, <<"\"", "}">>)
            /\ Len(text) >= Len(NameKey) + 2
            /\ ~Contains(SubSeq(text, Len(NameKey) + 1, Len(text) - 2), Quote)
    THEN [kind |-> "dict", keys |-> {"name"},
          name |-> [type |-> "str", value |-> SubSeq(text, Len(NameKey) + 1, Len(text) - 2)]]
    ELSE [kind |-> "invalid"]

-----------------------------------------------------------------------------
(* create_meeting_with_resolved_names                                       *)

UserDetail(user) ==
    [id |-> user.id, full_name |-> user.full_name,
     email_address |-> user.email_address]

\* user_details of the names search_names resolved
ResolvedDetailsMutantDropped(search_results) == <<>>

ResolvedDetails(search_results) ==
    [i \in 1..Len(search_results.resolved_names) |->
        UserDetail(search_results.resolved_names[i].matched_user)]

StrValue(chars) == [type |-> "str", value |-> chars]

\* the except branch: one label per non-empty line
LineLabel(line) ==
    IF Contains(line, <<".", " ">>)
    THEN Strip(Before(After(line, <<".", " ">>), <<" ", "(">>))
    ELSE IF Contains(line, <<" ", "(">>)
    THEN Strip(Before(line, <<" ", "(">>))
    ELSE line

FallbackChoices(text) ==
    LET lines == Split(Strip(text), <<"\n">>)
        stripped == [i \in 1..Len(lines) |-> Strip(lines[i])]
        kept == SelectSeq(stripped, LAMBDA line : line # <<>>)
    IN  [i \in 1..Len(kept) |-> StrValue(LineLabel(kept[i]))]

\* clarification_choices
ParseChoices(answer) ==
    IF /\ ~StartsWith(answer, <<"{">>)
       /\ ~StartsWith(answer, <<"[">>)
    THEN <<StrValue(Strip(answer))>>
    ELSE LET parsed_choice == JsonLoads(answer)
         IN  IF parsed_choice.kind = "invalid"
             THEN FallbackChoices(answer)
             ELSE IF parsed_choice.kind = "dict"
             THEN IF "name" \in parsed_choice.keys
                  THEN <<parsed_choice.name>>
                  ELSE <<>>
             ELSE parsed_choice.items

\* the test of lines 401-404
Matches(choice, candidate) ==
    LET choice_lower == Lower(choice.value)
        candidate_lower == Lower(candidate.full_name)
    IN  \/ Contains(candidate_lower, choice_lower)
        \/ Contains(choice_lower, candidate_lower)
        \/ Contains(RemoveSpaces(candidate_lower), RemoveSpaces(choice_lower))
        \/ Contains(RemoveSpaces(choice_lower), RemoveSpaces(candidate_lower))

\* for candidate in candidates: the first that matches is appended, then break
FirstMatch(choice, candidates) ==
    IF \E i \in 1..Len(candidates) : Matches(choice, candidates[i])
    THEN LET i == CHOOSE i \in 1..Len(candidates) :
                      /\ Matches(choice, candidates[i])
                      /\ \A j \in 1..(i - 1) : ~Matches(choice, candidates[j])
         IN  <<candidates[i]>>
    ELSE <<>>

\* for choice in clarification_choices, for one partial match
RECURSIVE AcceptedFrom(_, _, _)
AcceptedFrom(choices, k, candidates) ==
    IF k > Len(choices) THEN <<>>
    ELSE FirstMatch(choices[k], candidates) \o AcceptedFrom(choices, k + 1, candidates)

\* for partial_match in search_results['partial_matches']
RECURSIVE AcceptedAll(_, _, _)
AcceptedAll(partial_matches, m, choices) ==
    IF m > Len(partial_matches) THEN <<>>
    ELSE AcceptedFrom(choices, 1, partial_matches[m].candidates)
             \o AcceptedAll(partial_matches, m + 1, choices)

\* choice.lower() raises for a choice that is no str, once a candidate is compared
RaisesOnChoice(partial_matches, choices) ==
    /\ \E k \in 1..Len(choices) : choices[k].type # "str"
    /\ \E m \in 1..Len(partial_matches) : Len(partial_matches[m].candidates) > 0

\* json.loads(meeting_info_json) and the .get calls on it
MeetingInfoRaises(info_json) == info_json # "{}"

FullNames(details) == [i \in 1..Len(details) |-> details[i].full_name]

\* the value the tool returns: the meeting, or the error of the except branch
CreateMeeting(info_json, search_results, answer) ==
    LET choices == ParseChoices(answer)
        accepted == AcceptedAll(search_results.partial_matches, 1, choices)
        user_details == ResolvedDetails(search_results)
                            \o [i \in 1..Len(accepted) |-> UserDetail(accepted[i])]
    IN  IF \/ MeetingInfoRaises(info_json)
           \/ RaisesOnChoice(search_results.partial_matches, choices)
        THEN [kind |-> "error"]
        ELSE [kind |-> "meeting",
              meeting_duration |-> 30,
              attendees |-> FullNames(user_details),
              user_details |-> user_details]

-----------------------------------------------------------------------------
(* The calls of create_meeting_with_resolved_names                          *)

Digit(i) == <<"0", "1", "2", "3", "4", "5", "6", "7", "8", "9">>[i + 1]

\* numbered from 0, as enumerate() without its second argument
PromptLineMutantZeroBased(i, candidate) ==
    <<Digit(i - 1), ".", " ">> \o candidate.full_name \o <<" ", "(">>
        \o candidate.email_address \o <<")">>

\* a line of the prompt of check_clarification: "{i}. {full_name} ({email_address})"
PromptLine(i, candidate) ==
    <<Digit(i), ".", " ">> \o candidate.full_name \o <<" ", "(">>
        \o candidate.email_address \o <<")">>

PromptLines(search_results) ==
    UNION {{PromptLine(i, search_results.partial_matches[m].candidates[i]) :
               i \in 1..Len(search_results.partial_matches[m].candidates)} :
           m \in 1..Len(search_results.partial_matches)}

\* answers that name no candidate, part of one, one in another spelling,
\* two, the first of them without its space, a number, two lines
FreeTextAnswers ==
    {<<>>, <<" "," ">>, <<"Z","e","y","n","e","p">>, <<"K","a","y","a">>, <<"d","e","n","i","z"," ","k","a","y","a">>, <<"D","e","n","i","z","K","a","y","a","h","a","n">>,
     <<"A","h","m","e","t","K","a","y","a"," ","D","e","n","i","z"," ","K","a","y","a">>,
     <<"2">>,
     <<"A","h","m","e","t"," ","K","a","y","a","\n","D","e","n","i","z"," ","K","a","y","a","h","a","n">>}

\* answers that start with [ or {
StructuredAnswers ==
    {<<"[","\"","D","e","n","i","z"," ","K","a","y","a","\"",","," ","\"","D","e","n","i","z"," ","K","a","y","a","h","a","n","\"","]">>,
     <<"[","\"","A","h","m","e","t"," ","K","a","y","a","\"",",","\"","D","e","n","i","z"," ","K","a","y","a","\"","]">>,
     <<"[","2","]">>,
     <<"{","\"","n","a","m","e","\"",":"," ","\"","D","e","n","i","z"," ","K","a","y","a","h","a","n","\"","}">>,
     <<"{","}">>,
     <<"[","D","e","n","i","z"," ","K","a","y","a","h","a","n">>,
     <<"[","x","]">> \o <<"\n">> \o <<"2","."," ","D","e","n","i","z"," ","K","a","y","a","h","a","n"," ","(","d","e","n","i","z",".","k","a","y","a","h","a","n","@","c","o","m","p","a","n","y",".","c","o","m",")">>}

\* the clarification answers tried against one result of search_names
Answers(search_results) ==
    {df_user[i].full_name : i \in 1..Len(df_user)}
        \cup PromptLines(search_results)
        \cup FreeTextAnswers
        \cup StructuredAnswers

MeetingInfos == {"{}", "{"}

\* one call of the tool, with the results of search_names passed on verbatim
Merge ==
    /\ pc = "done"
    /\ \E info \in MeetingInfos, answer \in Answers(results) :
          /\ meeting_info_json' = info
          /\ clarification_choice' = answer
          /\ meeting' = CreateMeeting(info, results, answer)
    /\ pc' = "merged"
    /\ UNCHANGED <<resolver, collection, input_names, threshold, pos, results,
                   restVars>>

NextMerge == SkipBlank \/ ResolveName \/ Return \/ Merge

SpecMerge == InitSample /\ [][NextMerge]_vars

-----------------------------------------------------------------------------
(* Properties of create_meeting_with_resolved_names                         *)

Merged == pc = "merged"

ReturnedMeeting == Merged /\ meeting.kind = "meeting"

\* the attendees added after those of resolved_names
AcceptedCount == Len(meeting.user_details) - Len(results.resolved_names)

Accepted ==
    SubSeq(meeting.user_details, Len(results.resolved_names) + 1,
           Len(meeting.user_details))

\* the candidates search_names listed for a pending name
CandidateIdsOf(name) == UNION {CandidateIds(e) : e \in PartialOf(name)}

\* C1: resolved-name preservation: the attendee list of every meeting the merge
\* returns starts with the matched users of resolved_names, each with its id,
\* full name and email address, in their order.
C1_ResolvedPreserved ==
    ReturnedMeeting =>
        /\ Len(meeting.user_details) >= Len(results.resolved_names)
        /\ \A i \in 1..Len(results.resolved_names) :
               /\ meeting.user_details[i].id = results.resolved_names[i].matched_user.id
               /\ meeting.user_details[i].full_name
                      = results.resolved_names[i].matched_user.full_name
               /\ meeting.user_details[i].email_address
                      = results.resolved_names[i].matched_user.email_address

\* a meeting merged from two different resolved users and an accepted candidate
C1_Witness ==
    /\ ReturnedMeeting
    /\ Len(results.resolved_names) = 2
    /\ results.resolved_names[1].matched_user.id # results.resolved_names[2].matched_user.id
    /\ AcceptedCount >= 1

\* C2 as stated: a meeting is returned only when every pending name got a
\* candidate: each name of ambiguous_names has an attendee among its candidates.
C2_AsStated ==
    ReturnedMeeting =>
        \A k \in 1..Len(results.ambiguous_names) :
            \E j \in 1..Len(Accepted) :
                Accepted[j].id \in CandidateIdsOf(results.ambiguous_names[k])

\* C3 as stated: an empty or whitespace-only answer accepts no candidate.
C3_AsStated ==
    (ReturnedMeeting /\ Strip(clarification_choice) = <<>>) => AcceptedCount = 0

\* C4 as stated: at most one candidate is accepted for each pending ambiguous
\* name, whatever the form of the answer.
C4_AsStated ==
    ReturnedMeeting => AcceptedCount <= Len(results.partial_matches)

\* C5 as stated: an answer that is the full name of a candidate of the pending
\* name, or its line of the prompt, makes the merge return exactly that candidate
\* after the resolved names.
C5_AsStated ==
    (Merged /\ meeting_info_json = "{}" /\ Len(results.partial_matches) = 1) =>
        \A i \in 1..Len(results.partial_matches[1].candidates) :
            LET candidate == results.partial_matches[1].candidates[i]
            IN  clarification_choice \in {candidate.full_name, PromptLine(i, candidate)} =>
                    /\ meeting.kind = "meeting"
                    /\ meeting.user_details
                           = ResolvedDetails(results) \o <<UserDetail(candidate)>>

\* plain containment of the lowered texts, either way
PlainMatch(choice, candidate) ==
    \/ Contains(Lower(candidate.full_name), Lower(choice.value))
    \/ Contains(Lower(choice.value), Lower(candidate.full_name))

\* containment of the lowered texts once their spaces are removed
SpaceFreeMatch(choice, candidate) ==
    \/ Contains(RemoveSpaces(Lower(candidate.full_name)), RemoveSpaces(Lower(choice.value)))
    \/ Contains(RemoveSpaces(Lower(choice.value)), RemoveSpaces(Lower(candidate.full_name)))

FirstWith(Test(_, _), choice, candidates) ==
    <<candidates[CHOOSE i \in 1..Len(candidates) :
                    /\ Test(choice, candidates[i])
                    /\ \A j \in 1..(i - 1) : ~Test(choice, candidates[j])]>>

\* the two-pass policy: the first candidate that matches plainly, and only
\* when there is none the first that matches without spaces
TwoPass(choice, candidates) ==
    IF \E i \in 1..Len(candidates) : PlainMatch(choice, candidates[i])
    THEN FirstWith(PlainMatch, choice, candidates)
    ELSE IF \E i \in 1..Len(candidates) : SpaceFreeMatch(choice, candidates[i])
    THEN FirstWith(SpaceFreeMatch, choice, candidates)
    ELSE <<>>

RECURSIVE TwoPassFrom(_, _, _)
TwoPassFrom(choices, k, candidates) ==
    IF k > Len(choices) THEN <<>>
    ELSE TwoPass(choices[k], candidates) \o TwoPassFrom(choices, k + 1, candidates)

RECURSIVE TwoPassAll(_, _, _)
TwoPassAll(partial_matches, m, choices) ==
    IF m > Len(partial_matches) THEN <<>>
    ELSE TwoPassFrom(choices, 1, partial_matches[m].candidates)
             \o TwoPassAll(partial_matches, m + 1, choices)

\* C25 as stated: for every label and every candidate list, the candidate the
\* merge accepts is the one the two-pass policy chooses: the first that
\* matches by plain containment, and the first that matches without spaces
\* only when no candidate of the name matches plainly.
C25_AsStated ==
    ReturnedMeeting =>
        LET chosen == TwoPassAll(results.partial_matches, 1,
                                 ParseChoices(clarification_choice))
        IN  Accepted = [i \in 1..Len(chosen) |-> UserDetail(chosen[i])]

\* the labels handle_clarification derives from an answer (lines 786-808):
\* a line of digits becomes "Choice N"
HandleLabels(answer) ==
    LET lines == Split(Strip(answer), <<"\n">>)
        stripped == [i \in 1..Len(lines) |-> Strip(lines[i])]
        kept == SelectSeq(stripped, LAMBDA line : line # <<>>)
    IN  [i \in 1..Len(kept) |->
            IF \A j \in 1..Len(kept[i]) : IsDigit(kept[i][j])
            THEN StrValue(<<"C", "h", "o", "i", "c", "e", " ">> \o kept[i])
            ELSE StrValue(LineLabel(kept[i]))]

\* a line without its leading "N. "
WithoutOrdinal(line) ==
    LET digits == CHOOSE k \in 0..Len(line) :
                      /\ \A j \in 1..k : IsDigit(line[j])
                      /\ k < Len(line) => ~IsDigit(line[k + 1])
    IN  IF digits >= 1 /\ StartsWith(SubSeq(line, digits + 1, Len(line)), <<".", " ">>)
        THEN Strip(SubSeq(line, digits + 3, Len(line)))
        ELSE line

\* a line without its trailing " (email)"
WithoutEmail(line) ==
    IF EndsWith(line, <<")">>) /\ Contains(line, <<" ", "(">>)
    THEN Strip(Before(line, <<" ", "(">>))
    ELSE line

\* one label per non-empty line
LabelsOfLines(answer) ==
    LET lines == Split(answer, <<"\n">>)
        stripped == [i \in 1..Len(lines) |-> Strip(lines[i])]
        kept == SelectSeq(stripped, LAMBDA line : line # <<>>)
    IN  [i \in 1..Len(kept) |-> StrValue(WithoutEmail(WithoutOrdinal(kept[i])))]

IsFreeText(answer) ==
    ~StartsWith(answer, <<"{">>) /\ ~StartsWith(answer, <<"[">>)

\* C26 as stated: from every free-text answer the merge derives one label
\* per non-empty line, without a leading "N. " and a trailing " (email)", and
\* its labels are those handle_clarification derives from the same answer.
C26_AsStated ==
    (Merged /\ IsFreeText(clarification_choice)) =>
        /\ ParseChoices(clarification_choice) = LabelsOfLines(clarification_choice)
        /\ ParseChoices(clarification_choice) = HandleLabels(clarification_choice)

\* C29 as stated: the attendee list the merge returns never holds the same
\* person id twice.
C29_AsStated ==
    ReturnedMeeting =>
        \A i, j \in 1..Len(meeting.user_details) :
            meeting.user_details[i].id = meeting.user_details[j].id => i = j

-----------------------------------------------------------------------------
(* _index_users: the variants of a user                                     *)
(*                                                                          *)
(* A letter outside ASCII is written by its name: "s_cedilla" is the one    *)
(* character of U+015F.                                                     *)

\* s.replace(old, new)
RECURSIVE Replace(_, _, _)
Replace(s, old, new) ==
    IF Find(s, old) = 0 THEN s
    ELSE Before(s, old) \o new \o Replace(After(s, old), old, new)

\* s.split(): the tokens between runs of whitespace
RECURSIVE Tokens(_)
Tokens(s) ==
    LET t == LStrip(s)
        end == IF \E i \in 1..Len(t) : IsSpace(t[i])
               THEN CHOOSE i \in 1..Len(t) :
                        IsSpace(t[i]) /\ \A j \in 1..(i - 1) : ~IsSpace(t[j])
               ELSE Len(t) + 1
    IN  IF t = <<>> THEN <<>>
        ELSE <<SubSeq(t, 1, end - 1)>> \o Tokens(SubSeq(t, end, Len(t)))

\* the chain of replace() of line 47
Fold(s) ==
    Replace(Replace(Replace(Replace(Replace(Replace(s,
        <<"c_cedilla">>, <<"c">>), <<"g_breve">>, <<"g">>), <<"i_dotless">>, <<"i">>),
        <<"o_umlaut">>, <<"o">>), <<"s_cedilla">>, <<"s">>), <<"u_umlaut">>, <<"u">>)

\* full_name.split()[0] raises IndexError on a name without a token
SplitRaises(user) == Tokens(Lower(user.full_name)) = <<>>

\* the list `variants`
Variants(user) ==
    LET full_name == Lower(user.full_name)
        email_prefix == Lower(Split(user.email_address, <<"@">>)[1])
        words == Tokens(full_name)
    IN  <<full_name,
          Fold(full_name),
          words[1],
          IF Len(words) > 1 THEN words[Len(words)] ELSE full_name,
          email_prefix,
          Replace(email_prefix, <<".">>, <<" ">>),
          Strip(Replace(Replace(full_name, <<","," ","p","h",".","d">>, <<>>), <<","," ","p","h","d">>, <<>>)),
          Replace(Replace(full_name, <<"s_cedilla">> \o <<"a","h","i","n">>, <<"s","a","h","i","n">>),
                  <<"c_cedilla">> \o <<"e","l","i","k">>, <<"c","e","l","i","k">>)>>

\* the orders in which `for variant in set(variants)` may visit a set
RECURSIVE SetOrders(_)
SetOrders(S) ==
    IF S = {} THEN {<<>>}
    ELSE UNION {{<<x>> \o order : order \in SetOrders(S \ {x})} : x \in S}

\* for variant in set(variants)
VisitOrdersMutantList(variants) == {variants}

VisitOrders(variants) == SetOrders(Range(variants))

\* if variant.strip(): texts.append(variant)
KeptMutantFirstThree(order) == Truncate(order, 3)

Kept(order) == SelectSeq(order, LAMBDA variant : Strip(variant) # <<>>)

MetadataOf(user) ==
    [user_id |-> user.id,
     full_name |-> user.full_name,
     email_address |-> user.email_address]

-----------------------------------------------------------------------------
(* The collection a construction leaves, and its answers to a query         *)

Alphabet ==
    <<"a", "b", "c", "d", "e", "f", "g", "h", "i", "j", "k", "l", "m",
      "n", "o", "p", "q", "r", "s", "t", "u", "v", "w", "x", "y", "z">>

\* a number for every character
Code(c) ==
    IF \E i \in 1..Len(Alphabet) : Alphabet[i] = c
    THEN CHOOSE i \in 1..Len(Alphabet) : Alphabet[i] = c
    ELSE IF c = " " THEN 27 ELSE IF c = "." THEN 28 ELSE IF c = "," THEN 29
    ELSE 30

RECURSIVE Mix(_, _)
Mix(text, i) ==
    IF i > Len(text) THEN 0
    ELSE (i * Code(text[i]) + 7 * Mix(text, i + 1)) % 1999

\* the distance of a document from a query text under one fixed embedding:
\* zero for the text itself, growing with the letters one text has more
\* than the other, and for texts that do not start alike a large distance
\* that the text decides
Distance(query, text) ==
    IF query = text THEN 0
    ELSE IF StartsWith(text, query) \/ StartsWith(query, text)
    THEN LET more == IF Len(text) > Len(query) THEN Len(text) - Len(query)
                     ELSE Len(query) - Len(text)
         IN  IF 300 * more > 2000 THEN 2000 ELSE 300 * more
    ELSE 2001 + Mix(text, 1)

\* a document with its distance from the query
Measured(docs, query) == {<<d, Distance(query, d[1])>> : d \in docs}

HitOf(measured) == [metadata |-> measured[1][2], distance |-> measured[2]]

Nearest(measured) == {m \in measured : \A e \in measured : m[2] <= e[2]}

\* the documents nearest first; the documents at one distance come in an
\* order the store decides from the order of insertion and the ids, which
\* the code leaves to set() and to uuid4()
RECURSIVE OrdersOf(_)
OrdersOf(measured) ==
    IF measured = {} THEN {<<>>}
    ELSE {[i \in 1..Len(first) |-> HitOf(first[i])] \o others :
             first \in SetOrders(Nearest(measured)),
             others \in OrdersOf(measured \ Nearest(measured))}

QueryOrders(docs, query) == OrdersOf(Measured(docs, query))

\* the texts search_names will query
QueryTexts(names) == {Lower(names[i]) : i \in {j \in 1..Len(names) : ~IsBlank(names[j])}}

\* the collections a set of documents can behave as
RECURSIVE Collections(_, _)
Collections(docs, queries) ==
    IF queries = {} THEN {<<>>}
    ELSE LET q == CHOOSE x \in queries : TRUE
         IN  {(q :> hits) @@ coll :
                 hits \in QueryOrders(docs, q),
                 coll \in Collections(docs, queries \ {q})}

-----------------------------------------------------------------------------
(* The constructions of VectorDatabaseManager                               *)

MaxPeople == 2

\* rows a data frame may hold: two of create_realistic_company_dataframe,
\* a row with the id of another, a row with the email of another, and a row
\* whose name is blank
PersonRecords ==
    <<[id |-> 16, full_name |-> <<"D","e","n","i","z"," ","K","a","y","a">>,
       email_address |-> <<"d","e","n","i","z",".","k","a","y","a","@","c","o","m","p","a","n","y",".","c","o","m">>],
      [id |-> 17, full_name |-> <<"D","e","n","i","z"," ","K","a","y","a","h","a","n">>,
       email_address |-> <<"d","e","n","i","z",".","k","a","y","a","h","a","n","@","c","o","m","p","a","n","y",".","c","o","m">>],
      [id |-> 16, full_name |-> <<"A","l","i"," ","D","e","m","i","r">>,
       email_address |-> <<"a","l","i",".","d","e","m","i","r","@","c","o","m","p","a","n","y",".","c","o","m">>],
      [id |-> 18, full_name |-> <<"D","e","n","i","z"," ","K","a","y","a">>,
       email_address |-> <<"d","e","n","i","z",".","k","a","y","a","@","c","o","m","p","a","n","y",".","c","o","m">>],
      [id |-> 3, full_name |-> <<" "," ">>,
       email_address |-> <<"a",".","o","z","k","a","n","@","c","o","m","p","a","n","y",".","c","o","m">>]>>

\* rows of create_realistic_company_dataframe with letters outside ASCII and
\* with a title, indexed alone
LoneRecords ==
    {[id |-> 8, full_name |-> <<"S_cedilla">> \o <<"a","h","i","n"," ","K","o">> \o <<"c_cedilla">>,
      email_address |-> <<"s","a","h","i","n",".","k","o","c","@","c","o","m","p","a","n","y",".","c","o","m">>],
     [id |-> 9, full_name |-> <<"S_cedilla">> \o <<"a","h","i","n"," ","N","i","c","a","t",","," ","P","h",".","D">>,
      email_address |-> <<"s","n","i","c","a","t","@","c","o","m","p","a","n","y",".","c","o","m">>]}

\* the rows of PersonRecords at the positions of I, in their order
RECURSIVE Rows(_)
Rows(I) ==
    IF I = {} THEN <<>>
    ELSE LET first == CHOOSE i \in I : \A j \in I : i <= j
         IN  <<PersonRecords[first]>> \o Rows(I \ {first})

Populations ==
    {Rows(I) : I \in {J \in SUBSET (1..Len(PersonRecords)) :
                         Cardinality(J) \in 1..MaxPeople}}
        \cup {<<user>> : user \in LoneRecords}

IndexQueries ==
    {<<<<"D","e","n","i","z">>>>, <<<<" "," ">>, <<"K","a","y","a">>>>}

\* __init__ up to the call of _index_users: a fresh, empty collection
InitIndex ==
    /\ resolver = "VectorDatabaseManager"
    /\ threshold = DefaultThreshold
    /\ input_names \in IndexQueries
    /\ df \in Populations
    /\ row = 1
    /\ texts = <<>>
    /\ metadatas = <<>>
    /\ documents = {}
    /\ collection = <<>>
    /\ run = 1
    /\ first_run = [kind |-> "none"]
    /\ clarification = [status |-> "none"]
    /\ NoAgent
    /\ NoTool
    /\ NoReader
    /\ NoConfig
    /\ pos = 1
    /\ results = EmptyResults
    /\ pc = "index"
    /\ meeting_info_json = ""
    /\ clarification_choice = <<>>
    /\ meeting = [kind |-> "none"]

\* one pass of `for _, user in self.df_user.iterrows()`
IndexUser ==
    /\ pc = "index"
    /\ row <= Len(df)
    /\ ~SplitRaises(df[row])
    /\ \E order \in VisitOrders(Variants(df[row])) :
          /\ texts' = texts \o Kept(order)
          /\ metadatas' = metadatas \o [i \in 1..Len(Kept(order)) |-> MetadataOf(df[row])]
    /\ row' = row + 1
    /\ UNCHANGED <<toolVars, readerVars, configVars, resolver, collection, input_names, threshold, pos, results, pc,
                   mergeVars, df, documents, run, first_run, clarification, agentVars>>

\* the IndexError of full_name.split()[0] leaves __init__
IndexRaises ==
    /\ pc = "index"
    /\ row <= Len(df)
    /\ SplitRaises(df[row])
    /\ pc' = "raised"
    /\ UNCHANGED <<resolver, collection, input_names, threshold, pos, results,
                   mergeVars, restVars>>

\* encode, uuid4 and collection.add; __init__ returns, search_names is called
AddToCollection ==
    /\ pc = "index"
    /\ row > Len(df)
    /\ documents' = {<<texts[i], metadatas[i]>> : i \in 1..Len(texts)}
    /\ collection' \in Collections(documents', QueryTexts(input_names))
    /\ texts' = <<>>
    /\ metadatas' = <<>>
    /\ pc' = "loop"
    /\ UNCHANGED <<toolVars, readerVars, configVars, resolver, input_names, threshold, pos, results, mergeVars,
                   df, row, run, first_run, clarification, agentVars>>

\* the resolver is constructed again over the same data frame, for the same
\* call: delete_collection, create_collection
Rebuild ==
    /\ pc = "done"
    /\ run = 1
    /\ first_run' = [kind |-> "run", documents |-> documents, results |-> results]
    /\ run' = 2
    /\ documents' = {}
    /\ collection' = <<>>
    /\ row' = 1
    /\ pos' = 1
    /\ results' = EmptyResults
    /\ pc' = "index"
    /\ UNCHANGED <<toolVars, readerVars, configVars, resolver, input_names, threshold, mergeVars, df, texts, metadatas,
                   clarification, agentVars>>

NextIndex ==
    IndexUser \/ IndexRaises \/ AddToCollection \/ SkipBlank \/ ResolveName
        \/ Return \/ Rebuild

SpecIndex == InitIndex /\ [][NextIndex]_vars

-----------------------------------------------------------------------------
(* Properties of two constructions over one data frame                      *)

SecondRunReturned == run = 2 /\ pc = "done"

\* C11 as stated: two runs of index build and search_names over the same
\* data frame, with the same names and the same threshold, return the same
\* results: the same classification, candidates, candidate order and scores.
C11_AsStated == SecondRunReturned => results = first_run.results


Constructed == pc \in {"loop", "done"}

ConstructionOver == pc # "index"

UniqueIdentities(people) ==
    \A i, j \in 1..Len(people) :
        i # j => /\ people[i].id # people[j].id
                 /\ people[i].email_address # people[j].email_address

NamesGiven(people) == \A i \in 1..Len(people) : Strip(people[i].full_name) # <<>>

\* C12 as stated: over a data frame whose names are given, the construction
\* succeeds when ids and emails are each unique, and fails, leaving no
\* usable index, when two rows share an id or an email.
C12_AsStated ==
    (ConstructionOver /\ NamesGiven(df)) => (Constructed <=> UniqueIdentities(df))

\* the texts indexed so far with the metadata of a row
TextsOf(user) ==
    {texts[i] : i \in {j \in 1..Len(texts) : metadatas[j] = MetadataOf(user)}}

Indexed(k) == pc = "index" /\ run = 1 /\ k < row

LowerName(user) == Lower(user.full_name)

LocalPart(user) == Lower(Before(user.email_address, <<"@">>))

NonBlank(S) == {s \in S : Strip(s) # <<>>}

\* the seven texts the claim lists
ListedVariants(user) ==
    LET words == Tokens(LowerName(user))
    IN  {LowerName(user),
         Fold(LowerName(user)),
         Head(words),
         IF Len(words) = 1 THEN Head(words) ELSE words[Len(words)],
         LocalPart(user),
         Replace(LocalPart(user), <<".">>, <<" ">>),
         IF EndsWith(LowerName(user), <<","," ","p","h",".","d">>)
         THEN SubSeq(LowerName(user), 1, Len(LowerName(user)) - 6)
         ELSE LowerName(user)}

\* the name with the two spellings of line 55 made ASCII
CommonSpelling(user) ==
    Replace(Replace(LowerName(user), <<"s_cedilla">> \o <<"a","h","i","n">>, <<"s","a","h","i","n">>),
            <<"c_cedilla">> \o <<"e","l","i","k">>, <<"c","e","l","i","k">>)

NoTextTwice ==
    \A i, j \in 1..Len(texts) :
        (texts[i] = texts[j] /\ metadatas[i] = metadatas[j]) => i = j

NoBlankText == \A i \in 1..Len(texts) : Strip(texts[i]) # <<>>

\* C13 as stated: the texts indexed for a person are exactly the distinct,
\* non-blank strings among the seven listed ones.
C13_AsStated ==
    \A k \in 1..Len(df) :
        Indexed(k) => TextsOf(df[k]) = NonBlank(ListedVariants(df[k]))

\* the name without the titles ", ph.d" and ", phd", trimmed
WithoutTitles(user) ==
    Strip(Replace(Replace(LowerName(user), <<","," ","p","h",".","d">>, <<>>), <<","," ","p","h","d">>, <<>>))

\* C13: the texts indexed for a person whose name has a token are exactly
\* the distinct, non-blank strings among the listed ones, the name without
\* its titles, and the name with the spellings of sahin and celik made
\* ASCII; no blank text and no text twice for one person.
C13_VariantSet ==
    /\ \A k \in 1..Len(df) :
          Indexed(k) =>
              TextsOf(df[k]) =
                  NonBlank(ListedVariants(df[k])
                               \cup {WithoutTitles(df[k]), CommonSpelling(df[k])})
    /\ NoTextTwice
    /\ NoBlankText

\* a row whose eight variants are six texts, one of them outside the list
C13_Witness ==
    /\ Indexed(1)
    /\ Len(texts) = 6
    /\ CommonSpelling(df[1]) \in TextsOf(df[1])
    /\ CommonSpelling(df[1]) \notin ListedVariants(df[1])

EntriesOf(docs) == {<<d[1], d[2].user_id>> : d \in docs}

\* C14: two constructions over the same data frame index the same set of
\* (text, user id) entries.
C14_Idempotent ==
    (run = 2 /\ Constructed) => EntriesOf(documents) = EntriesOf(first_run.documents)

\* both constructions indexed two rows, in whatever orders
C14_Witness ==
    /\ run = 2
    /\ Constructed
    /\ Len(df) = 2
    /\ Cardinality(EntriesOf(documents)) >= 6

-----------------------------------------------------------------------------
(* check_clarification                                                      *)

\* "Lutfen secim yapin:" in its Turkish letters
ChoosePlease ==
    <<"L", "u_umlaut">> \o <<"t","f","e","n"," ","s","e">> \o <<"c_cedilla">> \o <<"i","m"," ","y","a","p">>
        \o <<"i_dotless">> \o <<"n",":">>

\* " icin secenekler:" in its Turkish letters
OptionsFor ==
    <<" ","i">> \o <<"c_cedilla">> \o <<"i","n"," ","s","e">> \o <<"c_cedilla">> \o <<"e","n","e","k","l","e","r",":">>

\* the lines of the candidates of one match, from the i-th on
RECURSIVE CandidateLines(_, _)
CandidateLines(candidates, i) ==
    IF i > Len(candidates) THEN <<>>
    ELSE <<" ", " ">> \o PromptLine(i, candidates[i]) \o <<"\n">>
             \o CandidateLines(candidates, i + 1)

\* what the loop over partial_matches adds to text, from the m-th match on
RECURSIVE MatchBlocks(_, _)
MatchBlocks(partial_matches, m) ==
    IF m > Len(partial_matches) THEN <<>>
    ELSE <<"'">> \o partial_matches[m].input_name \o <<"'">> \o OptionsFor \o <<"\n">>
             \o CandidateLines(partial_matches[m].candidates, 1)
             \o <<"\n">>
             \o MatchBlocks(partial_matches, m + 1)

ClarificationText(search_results) ==
    ChoosePlease \o <<"\n", "\n">> \o MatchBlocks(search_results.partial_matches, 1)

\* json.loads raises on a text that is not JSON
LoadsRaises(search_results) == search_results.kind # "json"

\* the tool, try and except included
CheckClarification(search_results) ==
    IF LoadsRaises(search_results)
    THEN [status |-> "error", error |-> "Parse error"]
    ELSE LET parsed == search_results.value
         IN  IF parsed.needs_clarification
             THEN [status |-> "needs_clarification",
                   clarification_needed |-> Strip(ClarificationText(parsed)),
                   search_results |-> parsed]
             ELSE [status |-> "proceed", proceed |-> TRUE,
                   resolved_count |-> Len(parsed.resolved_names)]

\* the agent calls the tool with the JSON of what search_names returned, or
\* with a text that is not JSON
CallCheckClarification ==
    /\ pc = "done"
    /\ \E search_results \in {[kind |-> "json", value |-> results],
                              [kind |-> "text"]} :
          clarification' = CheckClarification(search_results)
    /\ pc' = "checked"
    /\ UNCHANGED <<toolVars, readerVars, configVars, resolver, collection, input_names, threshold, pos, results,
                   mergeVars, indexVars, agentVars>>

NextPrompt == SkipBlank \/ ResolveName \/ Return \/ CallCheckClarification

SpecPrompt == InitSample /\ [][NextPrompt]_vars


-----------------------------------------------------------------------------
(* Properties of check_clarification                                         *)

Prompted == pc = "checked" /\ clarification.status = "needs_clarification"

LinesOf(response) == Split(response.clarification_needed, <<"\n">>)

\* the line of the m-th name: after the heading and its blank line, and after
\* the earlier names with their candidates and blank lines
RECURSIVE NameLine(_, _)
NameLine(partial_matches, m) ==
    IF m = 1 THEN 3
    ELSE NameLine(partial_matches, m - 1) + Len(partial_matches[m - 1].candidates) + 2

\* "  {index}. {full_name} ({email_address})"
ListedLine(index, candidate) ==
    <<" ", " ", Digit(index), ".", " ">> \o candidate.full_name
        \o <<" ", "(">> \o candidate.email_address \o <<")">>

\* C15: the prompt lists, under every name with candidates, all its
\* candidates in the order of the candidate list, numbered from 1, each as
\* "{index}. {full_name} ({email_address})", and nothing else under it.
C15_PromptLists ==
    Prompted =>
        LET lines == LinesOf(clarification)
            partial_matches == results.partial_matches
        IN  \A m \in 1..Len(partial_matches) :
               LET at == NameLine(partial_matches, m)
                   candidates == partial_matches[m].candidates
               IN  /\ at + Len(candidates) <= Len(lines)
                   /\ lines[at] = <<"'">> \o partial_matches[m].input_name
                                      \o <<"'">> \o OptionsFor
                   /\ \A i \in 1..Len(candidates) :
                         lines[at + i] = ListedLine(i, candidates[i])
                   /\ at + Len(candidates) < Len(lines)
                         => lines[at + Len(candidates) + 1] = <<>>

\* a prompt for two names, the second with three candidates
C15_Witness ==
    /\ Prompted
    /\ Len(results.partial_matches) = 2
    /\ Len(results.partial_matches[1].candidates) = 2
    /\ Len(results.partial_matches[2].candidates) = 3

\* C16 as stated: whenever needs_clarification is true, the prompt mentions
\* each name of ambiguous_names, the names without candidates too.
C16_AsStated ==
    Prompted =>
        \A k \in 1..Len(results.ambiguous_names) :
            Contains(clarification.clarification_needed, results.ambiguous_names[k])


-----------------------------------------------------------------------------
(* MeetingAssistantAgent and interactive_chat                                *)

MaxTurns == 3

\* search_names as one function
RECURSIVE SearchFrom(_, _, _, _, _, _)
SearchFrom(r, coll, names, t, i, res) ==
    IF i > Len(names) THEN res
    ELSE IF IsBlank(names[i]) THEN SearchFrom(r, coll, names, t, i + 1, res)
    ELSE SearchFrom(r, coll, names, t, i + 1,
                    Classified(r, res, names[i],
                               UniqueUsers(r, Query(coll, Lower(names[i])), t)))

SearchNames(r, coll, names, t) == SearchFrom(r, coll, names, t, 1, EmptyResults)

\* results of the search_names tool that the agent may quote in its output
QuotedResults ==
    {SearchNames("VectorNameResolver", SampleCollection, names, DefaultThreshold) :
        names \in {<<<<"A","l","i">>, <<"D","e","n","i","z">>>>, <<<<"K","a","y","a">>>>, <<<<"Z","e","y","n","e","p">>>>}}

\* a dictionary of the kinds process_request meets; a key that is absent has
\* the value get() gives for it
Dict == [status |-> "", search_results |-> Absent, clarification_needed |-> FALSE,
         body |-> FALSE, attendees |-> FALSE, error |-> FALSE,
         response |-> FALSE, asks |-> FALSE]

\* what json.loads makes of the braces of an output
ParsedResults ==
    {[Dict EXCEPT !.status = "needs_clarification", !.clarification_needed = TRUE,
                  !.search_results = Some(s)] : s \in QuotedResults}
    \cup {[Dict EXCEPT !.status = "needs_clarification", !.clarification_needed = TRUE]}
    \cup {[Dict EXCEPT !.clarification_needed = TRUE, !.search_results = Some(s)] :
             s \in QuotedResults}
    \cup {[Dict EXCEPT !.clarification_needed = TRUE],
          [Dict EXCEPT !.body = TRUE],
          [Dict EXCEPT !.attendees = TRUE],
          [Dict EXCEPT !.error = TRUE]}

\* the regular expression of line 747 matches an object without inner braces
Flat(search_results) ==
    search_results.resolved_names = <<>> /\ search_results.partial_matches = <<>>

\* result["output"] of self.agent.invoke: an exception, a text whose braces
\* hold one JSON object, or a text whose braces json.loads rejects, which
\* may ask for a choice and may hold an object with "resolved_names"
AgentOutputs ==
    {[kind |-> "raises"]}
    \cup {[kind |-> "json", parsed |-> d] : d \in ParsedResults}
    \cup {[asks |-> a, found |-> Absent, kind |-> "text"] : a \in BOOLEAN}
    \cup {[asks |-> FALSE, found |-> Some(s), kind |-> "text"] :
             s \in {q \in QuotedResults : Flat(q)}}

\* process_request: the context, the meeting info and the value it leaves;
\* the meeting info is written down with the request it was extracted from,
\* which the code does not keep
ProcessRequest(context, info, request, output) ==
    IF output.kind = "raises"
    THEN [current_context |-> context, last_meeting_info |-> info,
          value |-> [Dict EXCEPT !.error = TRUE]]
    ELSE IF output.kind = "json"
    THEN [current_context |->
              IF output.parsed.status = "needs_clarification"
              THEN [set |-> TRUE, original_request |-> request,
                    search_results |-> output.parsed.search_results]
              ELSE context,
          last_meeting_info |->
              IF output.parsed.attendees
              THEN Some([parsed_result |-> output.parsed, request |-> request])
              ELSE info,
          value |-> output.parsed]
    ELSE [current_context |->
              IF output.found.present
              THEN [set |-> TRUE, original_request |-> request,
                    search_results |-> output.found]
              ELSE context,
          last_meeting_info |-> info,
          value |-> [Dict EXCEPT !.response = TRUE, !.asks = output.asks]]

\* the three ways interactive_chat sees that a choice is needed
IsClarificationNeeded(result) ==
    \/ result.status = "needs_clarification"
    \/ result.clarification_needed
    \/ result.response /\ result.asks

\* original_search_results as interactive_chat sets it
SearchResultsFor(result, context) ==
    IF result.status = "needs_clarification" \/ result.clarification_needed
    THEN result.search_results
    ELSE IF context.set THEN context.search_results ELSE Absent

\* the request, the search results and the meeting info handle_clarification
\* writes into its instruction: the stored context goes before its arguments,
\* and the meeting info is written only next to search results
Instruction(context, info, request, answer, search_results) ==
    LET original_request ==
            IF context.set THEN context.original_request ELSE request
        results_used ==
            IF context.set THEN context.search_results ELSE search_results
        meeting_info ==
            IF context.set /\ results_used.present THEN info ELSE Absent
    IN  [original_request |-> original_request,
         search_results |-> results_used,
         meeting_info |-> meeting_info,
         clarification |-> answer]


\* what the user types
Requests == {"Ali ve Deniz ile toplanti", "Kaya ile toplanti"}

ChoiceTexts == {"Deniz Kayahan"}

\* MeetingAssistantAgent.__init__, and interactive_chat at its first input()
InitAgent ==
    /\ resolver = "VectorNameResolver"
    /\ collection = SampleCollection
    /\ input_names = <<>>
    /\ threshold = DefaultThreshold
    /\ pos = 1
    /\ results = EmptyResults
    /\ pc = "chat"
    /\ meeting_info_json = ""
    /\ clarification_choice = <<>>
    /\ meeting = [kind |-> "none"]
    /\ NoBuild
    /\ NoTool
    /\ NoReader
    /\ NoConfig
    /\ clarification = [status |-> "none"]
    /\ current_context = EmptyContext
    /\ last_meeting_info = Absent
    /\ chat = "input"
    /\ turn = 0
    /\ user_input = [kind |-> "none"]
    /\ original_search_results = Absent
    /\ clarification_instruction = Absent
    /\ final_result = Absent

searchVars == <<resolver, collection, input_names, threshold, pos, results, pc>>

\* one pass of the chat loop up to the prompt for a choice: a request is
\* read and processed, and its result is told apart
ReadRequest ==
    /\ chat = "input"
    /\ turn < MaxTurns
    /\ \E text \in Requests, output \in AgentOutputs :
          LET request == [kind |-> "request", text |-> text]
              done == ProcessRequest(current_context, last_meeting_info,
                                     request, output)
              result == done.value
          IN  /\ user_input' = request
              /\ last_meeting_info' = done.last_meeting_info
              /\ IF IsClarificationNeeded(result)
                 THEN /\ chat' = "choice"
                      /\ original_search_results' =
                             SearchResultsFor(result, done.current_context)
                      /\ current_context' = done.current_context
                 ELSE /\ chat' = "input"
                      /\ original_search_results' = Absent
                      /\ current_context' =
                             IF result.body THEN EmptyContext
                             ELSE done.current_context
    /\ turn' = turn + 1
    /\ clarification_instruction' = Absent
    /\ UNCHANGED <<toolVars, readerVars, configVars, searchVars, mergeVars, indexVars, clarification, final_result>>

\* the user answers the prompt: handle_clarification, then the rest of the pass
AnswerChoice ==
    /\ chat = "choice"
    /\ \E answer \in ChoiceTexts, output \in AgentOutputs :
          LET instruction == Instruction(current_context, last_meeting_info,
                                         user_input, answer,
                                         original_search_results)
              done == ProcessRequest(current_context, last_meeting_info,
                                     [kind |-> "instruction",
                                      instruction |-> instruction],
                                     output)
          IN  /\ clarification_instruction' = Some(instruction)
              /\ final_result' = Some(done.value)
              /\ last_meeting_info' = done.last_meeting_info
              /\ current_context' =
                     IF done.value.body THEN EmptyContext ELSE done.current_context
    /\ chat' = "input"
    /\ UNCHANGED <<toolVars, readerVars, configVars, searchVars, mergeVars, indexVars, clarification, turn,
                   user_input, original_search_results>>

\* the user answers the prompt with an empty line
AbandonChoice ==
    /\ chat = "choice"
    /\ chat' = "input"
    /\ UNCHANGED <<toolVars, readerVars, configVars, searchVars, mergeVars, indexVars, clarification,
                   current_context, last_meeting_info, turn, user_input,
                   original_search_results, clarification_instruction,
                   final_result>>

NextAgent == ReadRequest \/ AnswerChoice \/ AbandonChoice

SpecAgent == InitAgent /\ [][NextAgent]_vars


-----------------------------------------------------------------------------
(* Properties of the clarification context                                   *)

\* the pass of the chat loop that asked for a choice ends
ChoiceOver == chat = "choice" /\ chat' = "input"

\* ... after handle_clarification has processed an answer
AnswerProcessed == ChoiceOver /\ clarification_instruction'.present

\* C17 as stated: once the answer has been processed by handle_clarification,
\* whether a meeting was created or not, or the turn is abandoned, the stored
\* context is empty.
C17_AsStated == [][ChoiceOver => current_context' = EmptyContext]_vars

\* C18 as stated: the request and the search results an answer is merged
\* against are those of the request that produced the prompt, never those a
\* context stored for an earlier request.
C18_AsStated ==
    clarification_instruction.present =>
        /\ clarification_instruction.value.original_request = user_input
        /\ original_search_results.present =>
              clarification_instruction.value.search_results = original_search_results

\* C19 as stated: processing an answer that does not produce a meeting leaves
\* the stored search results as they were before the answer was processed.
C19_AsStated ==
    [][(AnswerProcessed /\ ~final_result'.value.body /\ current_context.set)
          => /\ current_context'.set
             /\ current_context'.search_results = current_context.search_results]_vars


\* C27 as stated: the meeting info handle_clarification passes to the merge
\* was extracted from the request that stored the search results, never
\* from an earlier request.
C27_AsStated ==
    (clarification_instruction.present
        /\ clarification_instruction.value.meeting_info.present) =>
        clarification_instruction.value.meeting_info.value.request
            = clarification_instruction.value.original_request

-----------------------------------------------------------------------------
(* The tools and the entry points as their callers see them: a call either  *)
(* returns a value or raises                                                *)

Returned(value) == [kind |-> "returned", value |-> value]

Raised == [kind |-> "raised"]

\* the texts an agent passes as attendee_names or user_details: JSON arrays
\* and objects, an array with an int among its items, an array that is not
\* closed, names separated by commas, blanks, nothing
ToolTexts ==
    {<<"[","\"","A","l","i","\"",","," ","\"","D","e","n","i","z","\"","]">>, <<"[","\"","K","a","y","a","\"","]">>, <<"[","\"","Z","e","y","n","e","p","\"",","," ","\""," "," ","\"","]">>, <<"[","]">>,
     <<"[","\"","A","l","i","\"",","," ","2","]">>, <<"[","2","]">>, <<"{","}">>, <<"{","\"","n","a","m","e","\"",":"," ","\"","A","l","i","\"","}">>, <<"[","\"","A","l","i","\"">>,
     <<"A","l","i",","," ","D","e","n","i","z">>, <<"K","a","y","a",",">>, <<" ",","," ">>, <<>>}

\* `for name in input_names` over what json.loads returned: the items of a
\* list, the keys of a dict
Iterated(parsed) ==
    IF parsed.kind = "list" THEN parsed.items
    ELSE IF "name" \in parsed.keys THEN <<StrValue(<<"n","a","m","e">>)>>
    ELSE <<>>

\* search_names of either resolver over the sample collection, at the
\* default threshold: name.strip() raises for a name that is no str
SearchNamesCall(r, names) ==
    IF \E i \in 1..Len(names) : names[i].type # "str"
    THEN Raised
    ELSE Returned([kind |-> "result",
                   value |-> SearchNames(r, SampleCollection,
                                         [i \in 1..Len(names) |-> names[i].value],
                                         DefaultThreshold)])

\* the try block of search_user_names
SearchUserNamesTry(attendee_names) ==
    LET names == JsonLoads(attendee_names)
    IN  IF names.kind = "invalid" THEN Raised
        ELSE SearchNamesCall("VectorDatabaseManager", Iterated(names))

\* search_user_names of meeting_tools.py
SearchUserNames(attendee_names) ==
    IF SearchUserNamesTry(attendee_names).kind = "raised"
    THEN Returned([kind |-> "error"])
    ELSE SearchUserNamesTry(attendee_names)

\* [n.strip() for n in attendee_names.split(',') if n.strip()]
CommaNames(attendee_names) ==
    LET parts == Split(attendee_names, <<",">>)
        stripped == [i \in 1..Len(parts) |-> Strip(parts[i])]
        kept == SelectSeq(stripped, LAMBDA n : n # <<>>)
    IN  [i \in 1..Len(kept) |-> StrValue(kept[i])]

\* search_names of main.py, which has no try
SearchNamesTool(attendee_names) ==
    SearchNamesCall("VectorNameResolver", CommaNames(attendee_names))

\* the search_results argument of a tool: the JSON of a result of
\* search_names, or a text that is not JSON
ResultArguments ==
    {[kind |-> "json", value |-> s] : s \in QuotedResults} \cup {[kind |-> "text"]}

\* create_meeting_json of main.py, try and except included; the other
\* fields of the meeting are its arguments as they came
CreateMeetingJson(search_results) ==
    IF LoadsRaises(search_results)
    THEN [kind |-> "error"]
    ELSE [kind |-> "meeting",
          user_details |-> ResolvedDetails(search_results.value)]

\* create_final_meeting_json of meeting_tools.py, try and except included
CreateFinalMeetingJson(user_details) ==
    IF JsonLoads(user_details).kind = "invalid"
    THEN [kind |-> "error"]
    ELSE [kind |-> "meeting", user_details |-> JsonLoads(user_details)]

\* run of meeting_agent.py: _extract_json_from_output keeps an object that
\* has a subject and a start time, as a created meeting has
Run(output) ==
    IF output.kind = "raises" THEN [Dict EXCEPT !.error = TRUE]
    ELSE IF output.kind = "json" /\ output.parsed.body THEN output.parsed
    ELSE [Dict EXCEPT !.response = TRUE,
                      !.asks = IF output.kind = "text" THEN output.asks ELSE FALSE]

\* a result of search_names as an agent may hand it on: one the tool
\* returned, or one whose resolved entry has lost its "matched_user"
Garbled ==
    [EmptyResults EXCEPT !.resolved_names = <<[input_name |-> <<"A","l","i">>]>>]

HandedResults == {Absent, Some(Garbled)} \cup {Some(s) : s \in QuotedResults}

\* resolved['matched_user']['full_name'] of line 779
ResolvedRaises(search_results) ==
    \E i \in 1..Len(search_results.resolved_names) :
        "matched_user" \notin DOMAIN search_results.resolved_names[i]

\* handle_clarification of main.py: what comes before its call of
\* process_request is in no try block
HandleClarification(context, info, original_request, answer, search_results, output) ==
    LET instruction == Instruction(context, info, original_request, answer,
                                   search_results)
    IN  IF /\ instruction.search_results.present
           /\ ResolvedRaises(instruction.search_results.value)
        THEN Raised
        ELSE Returned(ProcessRequest(context, info,
                                     [kind |-> "instruction",
                                      instruction |-> instruction],
                                     output).value)

InitTools ==
    /\ resolver = "VectorNameResolver"
    /\ collection = SampleCollection
    /\ input_names = <<>>
    /\ threshold = DefaultThreshold
    /\ pos = 1
    /\ results = EmptyResults
    /\ pc = "tools"
    /\ meeting_info_json = ""
    /\ clarification_choice = <<>>
    /\ meeting = [kind |-> "none"]
    /\ NoBuild
    /\ NoTool
    /\ NoReader
    /\ NoConfig
    /\ clarification = [status |-> "none"]
    /\ NoAgent

\* what a call of a tool leaves alone
calleeVars == <<searchVars, mergeVars, indexVars, clarification, agentVars,
                readerVars, configVars>>

CallSearchUserNames ==
    /\ \E attendee_names \in ToolTexts :
          /\ tool_input' = [tool |-> "search_user_names", argument |-> attendee_names]
          /\ tool_output' = SearchUserNames(attendee_names)
    /\ UNCHANGED calleeVars

CallSearchNames ==
    /\ \E attendee_names \in ToolTexts :
          /\ tool_input' = [tool |-> "search_names", argument |-> attendee_names]
          /\ tool_output' = SearchNamesTool(attendee_names)
    /\ UNCHANGED calleeVars

CallCheck ==
    /\ \E search_results \in ResultArguments :
          /\ tool_input' = [tool |-> "check_clarification", argument |-> search_results]
          /\ tool_output' = Returned(CheckClarification(search_results))
    /\ UNCHANGED calleeVars

CallMerge ==
    /\ \E info \in MeetingInfos, search_results \in QuotedResults :
          \E answer \in Answers(search_results) :
             /\ tool_input' = [tool |-> "create_meeting_with_resolved_names",
                               argument |-> <<info, search_results, answer>>]
             /\ tool_output' = Returned(CreateMeeting(info, search_results, answer))
    /\ UNCHANGED calleeVars

CallCreateMeetingJson ==
    /\ \E search_results \in ResultArguments :
          /\ tool_input' = [tool |-> "create_meeting_json", argument |-> search_results]
          /\ tool_output' = Returned(CreateMeetingJson(search_results))
    /\ UNCHANGED calleeVars

CallCreateFinalMeetingJson ==
    /\ \E user_details \in ToolTexts :
          /\ tool_input' = [tool |-> "create_final_meeting_json", argument |-> user_details]
          /\ tool_output' = Returned(CreateFinalMeetingJson(user_details))
    /\ UNCHANGED calleeVars

CallRun ==
    /\ \E output \in AgentOutputs :
          /\ tool_input' = [tool |-> "run", argument |-> output]
          /\ tool_output' = Returned(Run(output))
    /\ UNCHANGED calleeVars

CallProcessRequest ==
    /\ \E text \in Requests, output \in AgentOutputs :
          /\ tool_input' = [tool |-> "process_request", argument |-> <<text, output>>]
          /\ tool_output' =
                 Returned(ProcessRequest(EmptyContext, Absent,
                                         [kind |-> "request", text |-> text],
                                         output).value)
    /\ UNCHANGED calleeVars

CallHandleClarification ==
    /\ \E text \in Requests, answer \in ChoiceTexts,
          search_results \in HandedResults, output \in AgentOutputs :
          /\ tool_input' = [tool |-> "handle_clarification",
                            argument |-> <<text, answer, search_results>>]
          /\ tool_output' =
                 HandleClarification(EmptyContext, Absent,
                                     [kind |-> "request", text |-> text],
                                     answer, search_results, output)
    /\ UNCHANGED calleeVars

NextTools ==
    \/ CallSearchUserNames
    \/ CallSearchNames
    \/ CallCheck
    \/ CallMerge
    \/ CallCreateMeetingJson
    \/ CallCreateFinalMeetingJson
    \/ CallRun
    \/ CallProcessRequest
    \/ CallHandleClarification

SpecTools == InitTools /\ [][NextTools]_vars

-----------------------------------------------------------------------------
(* Properties of the calls                                                  *)

\* C20 as stated: no operation of the name-resolution and clarification
\* boundary raises to its caller, whatever its argument: the name search,
\* the clarification check, the merge of an answer, the builders of the
\* final JSON, run and process_request all return a value.
C20_AsStated == tool_output.kind # "raised"


-----------------------------------------------------------------------------
(* A second instance is constructed while the first one is searched: both   *)
(* call chromadb.Client() and use the collection named "users"              *)

\* what _index_users adds for a data frame none of whose rows raises
IndexedDocuments(frame) ==
    UNION {{<<text, MetadataOf(frame[i])>> : text \in Range(Kept(Variants(frame[i])))} :
              i \in 1..Len(frame)}

\* the first instance is constructed; __init__ of the second one has made its
\* client and is about to call delete_collection
InitRebuild ==
    /\ resolver = "VectorDatabaseManager"
    /\ threshold = DefaultThreshold
    /\ input_names \in IndexQueries
    /\ df \in Populations
    /\ row = 1
    /\ texts = <<>>
    /\ metadatas = <<>>
    /\ documents = {}
    /\ collection = <<>>
    /\ run = 2
    /\ \E frame \in {<<PersonRecords[1]>>, <<PersonRecords[1], PersonRecords[2]>>} :
          first_run = [kind |-> "run", documents |-> IndexedDocuments(frame),
                       results |-> EmptyResults]
    /\ clarification = [status |-> "none"]
    /\ NoAgent
    /\ NoTool
    /\ NoConfig
    /\ users = "first"
    /\ observed = [kind |-> "none"]
    /\ pos = 1
    /\ results = EmptyResults
    /\ pc = "delete"
    /\ meeting_info_json = ""
    /\ clarification_choice = <<>>
    /\ meeting = [kind |-> "none"]

\* self.client.delete_collection("users"), whatever it raises is passed over
DeleteCollection ==
    /\ pc = "delete"
    /\ users' = "absent"
    /\ pc' = "create"
    /\ UNCHANGED <<resolver, collection, input_names, threshold, pos, results,
                   mergeVars, indexVars, clarification, agentVars, toolVars, configVars,
                   observed>>

\* self.collection = self.client.create_collection("users")
CreateCollection ==
    /\ pc = "create"
    /\ users' = "second"
    /\ pc' = "index"
    /\ UNCHANGED <<resolver, collection, input_names, threshold, pos, results,
                   mergeVars, indexVars, clarification, agentVars, toolVars, configVars,
                   observed>>

\* the answers the collection of the first instance can give to a query:
\* the library is of no fixed version, so that a client may share its store
\* with the other clients of the process, its collection being known by its
\* id or by its name, or may keep a store of its own
FirstSees(registered, first_documents, second_documents) ==
    {[kind |-> "documents", documents |-> first_documents]}
        \cup (IF registered = "first" THEN {} ELSE {[kind |-> "raised"]})
        \cup (IF registered = "second"
              THEN {[kind |-> "documents", documents |-> second_documents]}
              ELSE {})

\* self.collection.query of a search_names of the first instance
QueryFirst ==
    /\ observed' \in FirstSees(users, first_run.documents, documents)
    /\ UNCHANGED <<resolver, collection, input_names, threshold, pos, results, pc,
                   mergeVars, indexVars, clarification, agentVars, toolVars, configVars,
                   users>>

NextRebuild ==
    \/ DeleteCollection
    \/ CreateCollection
    \/ IndexUser
    \/ IndexRaises
    \/ AddToCollection
    \/ QueryFirst

SpecRebuild == InitRebuild /\ [][NextRebuild]_vars

-----------------------------------------------------------------------------
(* Properties of a search during a rebuild                                  *)

\* the complete variant sets: that of the first instance, and that of the
\* second one where its data frame can be indexed
CompleteSets ==
    {first_run.documents}
        \cup (IF \E i \in 1..Len(df) : SplitRaises(df[i]) THEN {}
              ELSE {IndexedDocuments(df)})

\* C22 as stated: a query of the first instance that interleaves with the
\* construction of a second instance sees the complete variant set of the
\* first or of the second instance, never a deleted, an empty or a partly
\* filled collection.
C22_AsStated ==
    observed.kind # "none" =>
        /\ observed.kind = "documents"
        /\ observed.documents \in CompleteSets

-----------------------------------------------------------------------------
(* config.py: the global configuration                                      *)

\* os.getenv(key, default): the default only for a variable that is not set
GetEnv(env, key, default) == IF env[key].present THEN env[key] ELSE default

DigitValue(c) ==
    CASE c = "0" -> 0 [] c = "1" -> 1 [] c = "2" -> 2 [] c = "3" -> 3
      [] c = "4" -> 4 [] c = "5" -> 5 [] c = "6" -> 6 [] c = "7" -> 7
      [] c = "8" -> 8 [] c = "9" -> 9

\* the texts int() takes: decimal digits, spaces around them allowed
IsIntText(s) ==
    /\ Strip(s) # <<>>
    /\ \A i \in 1..Len(Strip(s)) : IsDigit(Strip(s)[i])

RECURSIVE DigitsValue(_)
DigitsValue(s) ==
    IF s = <<>> THEN 0
    ELSE 10 * DigitsValue(SubSeq(s, 1, Len(s) - 1)) + DigitValue(s[Len(s)])

\* int(text)
IntOf(s) == DigitsValue(Strip(s))

\* the texts float() takes, among those of the environments: a digit, a point
\* and up to three digits
IsFloatText(s) ==
    LET t == Strip(s)
    IN  /\ Len(t) >= 3
        /\ Len(t) <= 5
        /\ IsDigit(t[1])
        /\ t[2] = "."
        /\ \A i \in 3..Len(t) : IsDigit(t[i])

RECURSIVE Thousandths(_)
Thousandths(digits) ==
    IF Len(digits) >= 3 THEN DigitsValue(digits) ELSE Thousandths(Append(digits, "0"))

\* float(text), in the unit of the similarities
FloatOf(s) ==
    LET t == Strip(s)
    IN  (Scale \div 1000) * (1000 * DigitValue(t[1]) + Thousandths(SubSeq(t, 3, Len(t))))

\* int() or float() in Config.__init__ raises ValueError
ConfigRaises(env) ==
    \/ ~IsIntText(GetEnv(env, "DEFAULT_MEETING_DURATION", Some(<<"3","0">>)).value)
    \/ ~IsFloatText(GetEnv(env, "VECTOR_DB_SIMILARITY_THRESHOLD", Some(<<"0",".","7">>)).value)

\* Config()
Config(env) ==
    [azure_endpoint |-> GetEnv(env, "AZURE_OPENAI_ENDPOINT", Absent),
     azure_api_key |-> GetEnv(env, "AZURE_OPENAI_API_KEY", Absent),
     azure_deployment_name |->
         GetEnv(env, "AZURE_OPENAI_DEPLOYMENT_NAME", Some(<<"g","p","t","-","4","o">>)),
     azure_api_version |->
         GetEnv(env, "AZURE_OPENAI_API_VERSION", Some(<<"2","0","2","4","-","1","2","-","0","1","-","p","r","e","v","i","e","w">>)),
     default_meeting_duration |->
         IntOf(GetEnv(env, "DEFAULT_MEETING_DURATION", Some(<<"3","0">>)).value),
     vector_db_similarity_threshold |->
         FloatOf(GetEnv(env, "VECTOR_DB_SIMILARITY_THRESHOLD", Some(<<"0",".","7">>)).value)]

\* field is not None and field.strip() != ''
IsFilled(field) == field.present /\ Strip(field.value) # <<>>

\* Config.validate
validate(config) ==
    /\ IsFilled(config.azure_endpoint)
    /\ IsFilled(config.azure_api_key)
    /\ IsFilled(config.azure_deployment_name)
    /\ IsFilled(config.azure_api_version)

\* the values a variable of the environment may have
EnvValues(key) ==
    CASE key = "AZURE_OPENAI_ENDPOINT" -> {Absent, Some(<<" "," ">>), Some(<<"h","t","t","p","s",":","/","/","x">>)}
      [] key = "AZURE_OPENAI_API_KEY" -> {Absent, Some(<<>>), Some(<<"k">>)}
      [] key = "AZURE_OPENAI_DEPLOYMENT_NAME" -> {Absent, Some(<<" ">>)}
      [] key = "AZURE_OPENAI_API_VERSION" -> {Absent, Some(<<>>)}
      [] key = "DEFAULT_MEETING_DURATION" -> {Absent, Some(<<"4","5">>), Some(<<"a","b","c">>)}
      [] key = "VECTOR_DB_SIMILARITY_THRESHOLD" -> {Absent, Some(<<"0",".","7","5">>)}

InitConfig ==
    /\ resolver = "VectorNameResolver"
    /\ collection = SampleCollection
    /\ input_names = <<>>
    /\ threshold = DefaultThreshold
    /\ pos = 1
    /\ results = EmptyResults
    /\ pc = "config"
    /\ meeting_info_json = ""
    /\ clarification_choice = <<>>
    /\ meeting = [kind |-> "none"]
    /\ NoBuild
    /\ NoTool
    /\ NoReader
    /\ clarification = [status |-> "none"]
    /\ NoAgent
    /\ environ \in {env \in [EnvKeys -> UNION {EnvValues(key) : key \in EnvKeys}] :
                       \A key \in EnvKeys : env[key] \in EnvValues(key)}
    /\ _config = Absent
    /\ config_result = [kind |-> "none"]

\* what get_config leaves alone
configRest == <<searchVars, mergeVars, indexVars, clarification, agentVars,
                toolVars, readerVars>>

\* os.environ[key] = value, or del os.environ[key], between two calls
SetEnv ==
    /\ \E key \in EnvKeys :
          \E value \in EnvValues(key) :
              /\ environ[key] # value
              /\ environ' = [environ EXCEPT ![key] = value]
    /\ UNCHANGED <<_config, config_result, configRest>>

\* get_config with _config None: Config() is stored, then validated
GetConfigFirst ==
    /\ ~_config.present
    /\ IF ConfigRaises(environ)
       THEN /\ _config' = _config
            /\ config_result' = [kind |-> "raised", error |-> "ValueError"]
       ELSE /\ _config' = Some(Config(environ))
            /\ config_result' = IF validate(Config(environ))
                                THEN Returned(Config(environ))
                                ELSE [kind |-> "raised", error |-> "ValueError"]
    /\ UNCHANGED <<environ, configRest>>

\* get_config with _config set: it is returned as it is
GetConfigAgain ==
    /\ _config.present
    /\ config_result' = Returned(_config.value)
    /\ UNCHANGED <<environ, _config, configRest>>

NextConfig == SetEnv \/ GetConfigFirst \/ GetConfigAgain

SpecConfig == InitConfig /\ [][NextConfig]_vars

\* C30 as stated: every call of get_config raises ValueError or returns a Config
\* for which validate() is true, also after a call that failed validation.
C30_AsStated ==
    config_result.kind = "returned" => validate(config_result.value)

====
